---- MODULE Spec2Model ----
(***************************************************************************)
(* Driver of the Tektronix TDS 224 oscilloscope                            *)
(* (instruments/tektronix/tektds224.py): the instrument facade TekTDS224,  *)
(* its data sources and channels, and the device at the other end of the   *)
(* transport link.                                                         *)
(*                                                                         *)
(* Text that the driver formats or parses (source names, channel numbers,  *)
(* data widths) is a sequence of one-character strings, so that "CH1" is   *)
(* <<"C","H","1">>; a message is a sequence of strings whose first element *)
(* is the command header.  Numbers that the device reports as decimal      *)
(* text and the driver passes through float() are integers here, carried   *)
(* in a record [ok, v] whose ok is FALSE for a reply float() rejects.      *)
(***************************************************************************)
EXTENDS Integers, Sequences, FiniteSets, TLC

(***************************************************************************)
(* Bounds of the model.                                                    *)
(***************************************************************************)
\* data_width.setter is tried with the integers -1 .. MaxWidthArg
MaxWidthArg == 3
\* proxy lists are indexed with -1 .. NumChannels - 1 + MaxIndexOver
MaxIndexOver == 1
\* waveforms are read from channel[i], ref[i] with i < MaxSourceIdx, and math
MaxSourceIdx == 1
\* a CURVE? reply holds 0 .. MaxSamples samples
MaxSamples == 3
\* WFMP:<source>:NR_P? reports 0 .. MaxPoints points
MaxPoints == 3
\* two callers at once measure on channel[i], i < ConcChannels,
\* with the first ConcKeys accessors of MeasurementKeys
ConcChannels == 2
ConcKeys == 2

(***************************************************************************)
(* Program constants.                                                      *)
(***************************************************************************)
\* range(4): the valid indices of tek.channel and tek.ref
NumChannels == 4

(***************************************************************************)
(* Text: "{}".format(n), int(s), str.startswith("CH").                     *)
(***************************************************************************)
Digits == <<"0", "1", "2", "3", "4", "5", "6", "7", "8", "9">>

RECURSIVE Str(_)
Str(n) ==
    IF n < 0 THEN <<"-">> \o Str(-n)
    ELSE IF n < 10 THEN <<Digits[n + 1]>>
    ELSE Str(n \div 10) \o <<Digits[(n % 10) + 1]>>

IsDigit(c) == \E d \in 0..9 : Digits[d + 1] = c

DigitVal(c) == CHOOSE d \in 0..9 : Digits[d + 1] = c

RECURSIVE DigitsValue(_)
DigitsValue(s) ==
    IF s = <<>> THEN 0
    ELSE 10 * DigitsValue(SubSeq(s, 1, Len(s) - 1)) + DigitVal(s[Len(s)])

\* int(s): ok is FALSE where Python raises ValueError
int(s) ==
    LET neg == s # <<>> /\ Head(s) = "-"
        digits == IF neg THEN Tail(s) ELSE s
        ok == digits # <<>> /\ \A i \in 1..Len(digits) : IsDigit(digits[i])
    IN  [ok |-> ok,
         v |-> IF ~ ok THEN 0
               ELSE IF neg THEN - DigitsValue(digits) ELSE DigitsValue(digits)]

startswith_CH(name) == Len(name) >= 2 /\ name[1] = "C" /\ name[2] = "H"

(***************************************************************************)
(* Data source and channel objects.                                        *)
(***************************************************************************)
None == [cls |-> "None", name |-> <<>>, idx |-> 0]

\* a str passed where a data source is expected
StrValue(s) == [cls |-> "str", name |-> s, idx |-> 0]

_TekTDS224DataSource(name) == [cls |-> "DataSource", name |-> name, idx |-> 0]

_TekTDS224Channel_offbyone(idx) ==
    [cls |-> "Channel", name |-> <<"C", "H">> \o Str(idx + 1), idx |-> idx]

_TekTDS224Channel(idx) ==
    [cls |-> "Channel", name |-> <<"C", "H">> \o Str(idx + 1), idx |-> idx + 1]

\* ProxyList.__getitem__: an index outside the valid set raises IndexError
ProxyList_getitem(valid, idx) == idx \in valid

channel(idx) ==
    IF ProxyList_getitem(0..(NumChannels - 1), idx)
    THEN [exc |-> "none", obj |-> _TekTDS224Channel(idx)]
    ELSE [exc |-> "IndexError", obj |-> None]

ref(idx) ==
    IF ProxyList_getitem(0..(NumChannels - 1), idx)
    THEN [exc |-> "none",
          obj |-> _TekTDS224DataSource(<<"R", "E", "F">> \o Str(idx + 1))]
    ELSE [exc |-> "IndexError", obj |-> None]

math == _TekTDS224DataSource(<<"M", "A", "T", "H">>)

\* the data source object the getter builds from the reply to DAT:SOU?
data_source(name) ==
    IF startswith_CH(name)
    THEN LET n == int(SubSeq(name, 3, Len(name)))
         IN  IF n.ok THEN [exc |-> "none", obj |-> _TekTDS224Channel(n.v - 1)]
             ELSE [exc |-> "ValueError", obj |-> None]
    ELSE [exc |-> "none", obj |-> _TekTDS224DataSource(name)]

\* the setter formats the data source itself where it should format its name
data_source_setter_cmd_repr(newval) ==
    <<"DAT:SOU ">> \o (IF newval.cls = "str" THEN newval.name ELSE <<"<obj>">>)

\* the command data_source.setter sends for a str or a data source
data_source_setter_cmd(newval) == <<"DAT:SOU ">> \o newval.name

\* OscilloscopeDataSource.__eq__: data sources are equal when their names are
DataSource_eq(a, b) == a.name = b.name

(***************************************************************************)
(* Enumerations and catalogs of TekTDS224.                                 *)
(***************************************************************************)
Coupling == [ac |-> "AC", dc |-> "DC", ground |-> "GND"]

\* TekTDS224.Coupling(value): ok is FALSE where Enum raises ValueError
Coupling_of_value(v) ==
    IF \E m \in DOMAIN Coupling : Coupling[m] = v
    THEN [ok |-> TRUE, member |-> CHOOSE m \in DOMAIN Coupling : Coupling[m] = v]
    ELSE [ok |-> FALSE, member |-> "none"]

CouplingMember(m) == [type |-> "Coupling", val |-> m]

isinstance_Coupling(newval) == newval.type = "Coupling"

MeasurementTypes ==
    [cyclic_rms |-> "CRM", fall_time |-> "FAL", frequency |-> "FREQ",
     maximum |-> "MAXI", mean |-> "MEAN", minimum |-> "MINI",
     negative_width |-> "NWI", none |-> "NON", peak_peak |-> "PK2",
     period |-> "PERI", positive_width |-> "PWI", rise_time |-> "RIS"]

MeasurementUnits ==
    [cyclic_rms |-> "V", fall_time |-> "s", frequency |-> "Hz",
     maximum |-> "V", mean |-> "V", minimum |-> "V",
     negative_width |-> "s", peak_peak |-> "V", period |-> "s",
     positive_width |-> "s", rise_time |-> "s"]

\* the accessors _set_measurements attaches to a channel
_set_measurements ==
    {key \in DOMAIN MeasurementTypes : key \in DOMAIN MeasurementUnits}

(***************************************************************************)
(* State.                                                                  *)
(***************************************************************************)
VARIABLES
    devSource,      \* device: the selected data source (DAT:SOU)
    devWidth,       \* device: the data width (DATA:WIDTH)
    devCoupling,    \* device: the coupling of each channel (CH<n>:COUPL)
    devImmSou,      \* device: the immediate-measurement source
    devImmTyp,      \* device: the immediate-measurement type
    acc,            \* the last call of a one-exchange accessor
    rw,             \* the frame of the read_waveform call in progress or last made
    meas            \* the frame of each caller's measurement call

devVars == <<devSource, devWidth, devCoupling, devImmSou, devImmTyp>>

vars == <<devSource, devWidth, devCoupling, devImmSou, devImmTyp, acc, rw, meas>>

(***************************************************************************)
(* The device: what each command does to it, what it answers.              *)
(***************************************************************************)
DevSourceAfter(msg, cur) ==
    IF Head(msg) = "DAT:SOU " THEN Tail(msg) ELSE cur

DevWidthAfter(msg, cur) ==
    IF Head(msg) = "DATA:WIDTH "
    THEN LET n == int(Tail(msg))
         IN  IF n.ok /\ n.v \in {1, 2} THEN n.v ELSE cur
    ELSE cur

DevCouplingAfter(msg, cur) ==
    IF Head(msg) = "CH" /\ Len(msg) >= 4 /\ msg[Len(msg) - 1] = ":COUPL "
    THEN LET n == int(SubSeq(msg, 2, Len(msg) - 2))
             v == msg[Len(msg)]
         IN  IF n.ok /\ n.v \in 1..NumChannels /\ v \in {"AC", "DC", "GND"}
             THEN [cur EXCEPT ![n.v] = v]
             ELSE cur
    ELSE cur

DevImmSouAfter(msg, cur) ==
    IF Head(msg) = "MEASU:IMM:SOU "
    THEN LET n == int(Tail(msg)) IN IF n.ok THEN n.v ELSE cur
    ELSE cur

DevImmTypAfter(msg, cur) ==
    IF Head(msg) = "MEASU:IMM:TYP " /\ Len(msg) = 2 THEN msg[2] ELSE cur

\* a command reaches the device
DeviceReceives(msg) ==
    /\ devSource' = DevSourceAfter(msg, devSource)
    /\ devWidth' = DevWidthAfter(msg, devWidth)
    /\ devCoupling' = DevCouplingAfter(msg, devCoupling)
    /\ devImmSou' = DevImmSouAfter(msg, devImmSou)
    /\ devImmTyp' = DevImmTypAfter(msg, devImmTyp)

\* a reply the driver cannot parse
Garbage == <<"?">>

\* the replies the link can hand back for a reply the device gave
Replies(r) == {r, Garbage}

(***************************************************************************)
(* One-exchange accessors of the facade and of a channel.                  *)
(***************************************************************************)
NoArg == [type |-> "none", val |-> "none"]

AccBlank ==
    [op |-> "none", idx |-> 0, argInt |-> 0, argVal |-> NoArg,
     argSrc |-> None, sent |-> <<>>, reply |-> <<>>, exc |-> "none",
     retObj |-> None, retInt |-> 0, retCoupling |-> "none",
     changed |-> {}, devChanged |-> FALSE, prevSet |-> "none"]

\* the channels whose coupling the device holds differently after the step
ChangedChannels ==
    {n \in 1..NumChannels : devCoupling'[n] # devCoupling[n]}

\* a command is handed to the link: it reaches the device, or the link fails
Transport(msg, delivered) ==
    IF delivered THEN DeviceReceives(msg) ELSE UNCHANGED devVars

\* tek.channel[idx]
channel_getitem(idx) ==
    /\ acc' = [AccBlank EXCEPT !.op = "channel", !.idx = idx,
                               !.exc = channel(idx).exc,
                               !.retObj = channel(idx).obj]
    /\ UNCHANGED devVars

\* tek.ref[idx]
ref_getitem(idx) ==
    /\ acc' = [AccBlank EXCEPT !.op = "ref", !.idx = idx,
                               !.exc = ref(idx).exc,
                               !.retObj = ref(idx).obj]
    /\ UNCHANGED devVars

\* tek.data_source (getter)
data_source_get(delivered, reply) ==
    LET msg == <<"DAT:SOU?">>
        got == data_source(reply)
    IN  /\ acc' = IF delivered
                  THEN [AccBlank EXCEPT !.op = "data_source", !.sent = <<msg>>,
                                        !.reply = reply, !.exc = got.exc,
                                        !.retObj = got.obj]
                  ELSE [AccBlank EXCEPT !.op = "data_source", !.sent = <<msg>>,
                                        !.exc = "IOError"]
        /\ UNCHANGED devVars

\* tek.data_source = newval
data_source_set(newval, delivered) ==
    LET msg == data_source_setter_cmd(newval)
    IN  /\ Transport(msg, delivered)
        /\ acc' = [AccBlank EXCEPT !.op = "data_source=", !.argSrc = newval,
                                   !.sent = <<msg>>,
                                   !.exc = IF delivered THEN "none" ELSE "IOError",
                                   !.devChanged = (devVars' # devVars)]

\* the check of data_width.setter
data_width_valid_loose(newval) == newval <= 2

data_width_valid(newval) == newval \in {1, 2}

\* tek.data_width = newval
data_width_set(newval, delivered) ==
    LET msg == <<"DATA:WIDTH ">> \o Str(newval)
    IN  IF ~ data_width_valid(newval)
        THEN /\ UNCHANGED devVars
             /\ acc' = [AccBlank EXCEPT !.op = "data_width=", !.argInt = newval,
                                        !.exc = "ValueError",
                                        !.devChanged = (devVars' # devVars)]
        ELSE /\ Transport(msg, delivered)
             /\ acc' = [AccBlank EXCEPT !.op = "data_width=", !.argInt = newval,
                                        !.sent = <<msg>>,
                                        !.exc = IF delivered THEN "none" ELSE "IOError",
                                        !.devChanged = (devVars' # devVars)]

\* tek.data_width (getter)
data_width_get(delivered, reply) ==
    LET msg == <<"DATA:WIDTH?">>
        n == int(reply)
    IN  /\ acc' = IF delivered
                  THEN [AccBlank EXCEPT !.op = "data_width", !.sent = <<msg>>,
                                        !.reply = reply,
                                        !.exc = IF n.ok THEN "none" ELSE "ValueError",
                                        !.retInt = n.v]
                  ELSE [AccBlank EXCEPT !.op = "data_width", !.sent = <<msg>>,
                                        !.exc = "IOError"]
        /\ UNCHANGED devVars

\* the command coupling.setter sends
coupling_setter_cmd_wrong_channel(idx, newval) ==
    <<"CH">> \o Str(idx - 1) \o <<":COUPL ", Coupling[newval.val]>>

coupling_setter_cmd(idx, newval) ==
    <<"CH">> \o Str(idx) \o <<":COUPL ", Coupling[newval.val]>>

\* ch.coupling = newval, ch a channel of index idx
coupling_set(idx, newval, delivered) ==
    IF ~ isinstance_Coupling(newval)
    THEN /\ UNCHANGED devVars
         /\ acc' = [AccBlank EXCEPT !.op = "coupling=", !.idx = idx,
                                    !.argVal = newval, !.exc = "TypeError",
                                    !.changed = ChangedChannels,
                                    !.devChanged = (devVars' # devVars)]
    ELSE LET msg == coupling_setter_cmd(idx, newval)
         IN  /\ Transport(msg, delivered)
             /\ acc' = [AccBlank EXCEPT !.op = "coupling=", !.idx = idx,
                                        !.argVal = newval, !.sent = <<msg>>,
                                        !.exc = IF delivered THEN "none" ELSE "IOError",
                                        !.changed = ChangedChannels,
                                        !.devChanged = (devVars' # devVars)]

\* ch.coupling (getter), ch a channel of index idx
coupling_get(idx, delivered, reply) ==
    LET msg == <<"CH">> \o Str(idx) \o <<":COUPL?">>
        c == Coupling_of_value(reply)
        \* the mode the call right before this one set on this channel
        prev == IF /\ acc.op = "coupling=" /\ acc.exc = "none" /\ acc.idx = idx
                THEN acc.argVal.val ELSE "none"
    IN  /\ acc' = IF delivered
                  THEN [AccBlank EXCEPT !.op = "coupling", !.idx = idx,
                                        !.sent = <<msg>>,
                                        !.exc = IF c.ok THEN "none" ELSE "ValueError",
                                        !.retCoupling = c.member,
                                        !.prevSet = prev]
                  ELSE [AccBlank EXCEPT !.op = "coupling", !.idx = idx,
                                        !.sent = <<msg>>, !.exc = "IOError",
                                        !.prevSet = prev]
        /\ UNCHANGED devVars

(***************************************************************************)
(* Waveform arithmetic and the binary block.                               *)
(***************************************************************************)
NoNum == [ok |-> FALSE, v |-> 0]

Num(v) == [ok |-> TRUE, v |-> v]

NoRaw == [kind |-> "none", data |-> <<>>]

\* the multiplier is applied before the offset is taken off
rescale_mult_first(raw, yoffs, ymult, yzero) ==
    [i \in 1..Len(raw) |-> (raw[i] * ymult - yoffs) + yzero]

\* y = ((raw - float(yoffs)) * float(ymult)) + float(yzero)
rescale(raw, yoffs, ymult, yzero) ==
    [i \in 1..Len(raw) |-> ((raw[i] - yoffs) * ymult) + yzero]

\* np.arange(n), one element too many
arange_inclusive(n) == [i \in 1..(n + 1) |-> i - 1]

\* np.arange(n): 0, 1, ..., n - 1
arange(n) == [i \in 1..n |-> i - 1]

\* the axis counted from 1
time_axis_from_one(ptcnt, xincr, xzero) ==
    [i \in 1..ptcnt |-> i * xincr + xzero]

\* x = np.arange(float(ptcnt)) * float(xincr) + float(xzero)
time_axis(ptcnt, xincr, xzero) ==
    [i \in 1..Len(arange(ptcnt)) |-> arange(ptcnt)[i] * xincr + xzero]

RECURSIVE Pow256(_)
Pow256(w) == IF w = 0 THEN 1 ELSE 256 * Pow256(w - 1)

\* one sample as w bytes, signed, most significant byte first (DAT:ENC RIB)
RECURSIVE EncodeSample(_, _)
EncodeSample(v, w) ==
    IF w = 0 THEN <<>>
    ELSE LET u == v % Pow256(w)
         IN  <<u \div Pow256(w - 1)>> \o EncodeSample(u % Pow256(w - 1), w - 1)

\* the block the device sends for CURVE? at its data width
RECURSIVE DevCurveBlock(_, _)
DevCurveBlock(samples, w) ==
    IF samples = <<>> THEN <<>>
    ELSE EncodeSample(Head(samples), w) \o DevCurveBlock(Tail(samples), w)

RECURSIVE Unsigned(_)
Unsigned(bytes) ==
    IF bytes = <<>> THEN 0
    ELSE 256 * Unsigned(SubSeq(bytes, 1, Len(bytes) - 1)) + bytes[Len(bytes)]

\* binblockread(data_width): the block as signed big-endian integers
RECURSIVE binblockread(_, _)
binblockread(bytes, data_width) ==
    IF Len(bytes) < data_width THEN <<>>
    ELSE LET u == Unsigned(SubSeq(bytes, 1, data_width))
             v == IF 2 * u >= Pow256(data_width) THEN u - Pow256(data_width) ELSE u
         IN  <<v>> \o binblockread(SubSeq(bytes, data_width + 1, Len(bytes)),
                                   data_width)

(***************************************************************************)
(* read_waveform, one exchange on the link per step.                       *)
(***************************************************************************)
RwBlank ==
    [pc |-> "idle", self |-> None, bin_format |-> TRUE, old_dsrc |-> None,
     before |-> <<>>, data_width |-> 0, curve |-> <<>>, raw |-> NoRaw,
     yoffs |-> NoNum, ymult |-> NoNum, yzero |-> NoNum, y |-> <<>>,
     xzero |-> NoNum, xincr |-> NoNum, ptcnt |-> NoNum, x |-> <<>>,
     exc |-> "none", restore |-> "none", log |-> <<>>]

\* CURVE? is sent before the data width is asked for
step_after_curve_first(pc, bin_format) ==
    CASE pc = "enc" -> IF bin_format THEN "curve_send" ELSE "curve_query"
      [] pc = "curve_send" -> "width"
      [] pc = "width" -> "binblock"
      [] pc = "binblock" -> "yof"
      [] pc = "curve_query" -> "yof"
      [] pc = "yof" -> "ymu"
      [] pc = "ymu" -> "yze"
      [] pc = "yze" -> "xze"
      [] pc = "xze" -> "xin"
      [] pc = "xin" -> "nrp"
      [] pc = "nrp" -> "exit"

\* the order of the statements of the body of read_waveform
step_after(pc, bin_format) ==
    CASE pc = "enc" -> IF bin_format THEN "width" ELSE "curve_query"
      [] pc = "width" -> "curve_send"
      [] pc = "curve_send" -> "binblock"
      [] pc = "binblock" -> "yof"
      [] pc = "curve_query" -> "yof"
      [] pc = "yof" -> "ymu"
      [] pc = "ymu" -> "yze"
      [] pc = "yze" -> "xze"
      [] pc = "xze" -> "xin"
      [] pc = "xin" -> "nrp"
      [] pc = "nrp" -> "exit"

\* the query for one field of the waveform preamble
wfmp_query(field, name) ==
    CASE field = "yof" -> <<"WFMP:">> \o name \o <<":YOF?">>
      [] field = "ymu" -> <<"WFMP:">> \o name \o <<":YMU?">>
      [] field = "yze" -> <<"WFMP:">> \o name \o <<":YZE?">>
      [] field = "xze" -> <<"WFMP:XZE?">>
      [] field = "xin" -> <<"WFMP:XIN?">>
      [] field = "nrp" -> <<"WFMP:">> \o name \o <<":NR_P?">>

\* an exception leaves the body of the with statement
Raise(frame, exc) == [frame EXCEPT !.exc = exc, !.pc = "exit"]

\* source.read_waveform(bin_format) is called
read_waveform(self, bin_format) ==
    /\ rw.pc = "idle"
    /\ rw' = [RwBlank EXCEPT !.pc = "enter", !.self = self,
                             !.bin_format = bin_format, !.before = devSource]
    /\ acc' = AccBlank
    /\ UNCHANGED <<devVars, meas>>

\* __enter__: the selected data source is asked for and kept
enter_query(delivered) ==
    LET msg == <<"DAT:SOU?">>
        got == data_source(devSource)
        logged == [rw EXCEPT !.log = Append(@, msg)]
    IN  /\ rw.pc = "enter"
        /\ rw' = IF ~ delivered
                 THEN [logged EXCEPT !.exc = "IOError", !.pc = "done"]
                 ELSE IF got.exc # "none"
                 THEN [logged EXCEPT !.exc = got.exc, !.pc = "done"]
                 ELSE IF ~ DataSource_eq(got.obj, rw.self)
                 THEN [logged EXCEPT !.old_dsrc = got.obj, !.pc = "enter_set"]
                 ELSE [logged EXCEPT !.pc = "enc"]
        /\ UNCHANGED <<devVars, acc, meas>>

\* __enter__: this data source is selected
enter_select(delivered) ==
    LET msg == data_source_setter_cmd(rw.self)
        logged == [rw EXCEPT !.log = Append(@, msg)]
    IN  /\ rw.pc = "enter_set"
        /\ Transport(msg, delivered)
        /\ rw' = IF delivered THEN [logged EXCEPT !.pc = "enc"]
                 ELSE [logged EXCEPT !.exc = "IOError", !.pc = "done"]
        /\ UNCHANGED <<acc, meas>>

\* sendcmd('DAT:ENC RIB') or sendcmd('DAT:ENC ASCI')
send_encoding(delivered) ==
    LET msg == IF rw.bin_format THEN <<"DAT:ENC RIB">> ELSE <<"DAT:ENC ASCI">>
        logged == [rw EXCEPT !.log = Append(@, msg)]
    IN  /\ rw.pc = "enc"
        /\ Transport(msg, delivered)
        /\ rw' = IF delivered
                 THEN [logged EXCEPT !.pc = step_after("enc", rw.bin_format)]
                 ELSE Raise(logged, "IOError")
        /\ UNCHANGED <<acc, meas>>

\* data_width = self._tek.data_width
query_data_width(delivered, reply) ==
    LET msg == <<"DATA:WIDTH?">>
        n == int(reply)
        logged == [rw EXCEPT !.log = Append(@, msg)]
    IN  /\ rw.pc = "width"
        /\ rw' = IF ~ delivered THEN Raise(logged, "IOError")
                 ELSE IF ~ n.ok THEN Raise(logged, "ValueError")
                 ELSE [logged EXCEPT !.data_width = n.v,
                                     !.pc = step_after("width", rw.bin_format)]
        /\ UNCHANGED <<devVars, acc, meas>>

\* sendcmd('CURVE?')
send_curve(delivered) ==
    LET msg == <<"CURVE?">>
        logged == [rw EXCEPT !.log = Append(@, msg)]
    IN  /\ rw.pc = "curve_send"
        /\ Transport(msg, delivered)
        /\ rw' = IF delivered
                 THEN [logged EXCEPT !.pc = step_after("curve_send", rw.bin_format)]
                 ELSE Raise(logged, "IOError")
        /\ UNCHANGED <<acc, meas>>

\* raw = binblockread(data_width), then flush_input()
read_block(delivered, curve) ==
    LET msg == <<"binblockread ">> \o Str(rw.data_width)
        logged == [rw EXCEPT !.log = Append(@, msg)]
        data == binblockread(DevCurveBlock(curve, devWidth), rw.data_width)
    IN  /\ rw.pc = "binblock"
        /\ rw' = IF ~ delivered THEN Raise(logged, "IOError")
                 ELSE [logged EXCEPT !.curve = curve,
                                     !.raw = [kind |-> "ndarray", data |-> data],
                                     !.log = Append(@, <<"flush_input">>),
                                     !.pc = step_after("binblock", rw.bin_format)]
        /\ UNCHANGED <<devVars, acc, meas>>

\* raw = np.array(map(float, query('CURVE?').split(','))): map is the lazy
\* builtins.map, so the array holds the one map object and no number
query_curve_ascii(delivered, curve) ==
    LET msg == <<"CURVE?">>
        logged == [rw EXCEPT !.log = Append(@, msg)]
    IN  /\ rw.pc = "curve_query"
        /\ rw' = IF ~ delivered THEN Raise(logged, "IOError")
                 ELSE [logged EXCEPT !.curve = curve,
                                     !.raw = [kind |-> "map object", data |-> curve],
                                     !.pc = step_after("curve_query", rw.bin_format)]
        /\ UNCHANGED <<devVars, acc, meas>>

\* the exception of line 99, its operands evaluated left to right
rescale_exc(frame) ==
    IF ~ frame.yoffs.ok THEN "ValueError"
    ELSE IF frame.raw.kind # "ndarray" THEN "TypeError"
    ELSE IF ~ frame.ymult.ok \/ ~ frame.yzero.ok THEN "ValueError"
    ELSE "none"

\* the exception of line 108
time_axis_exc(frame) ==
    IF ~ frame.ptcnt.ok \/ ~ frame.xincr.ok \/ ~ frame.xzero.ok
    THEN "ValueError" ELSE "none"

\* one query of the waveform preamble; y is computed after the third, x and
\* the result after the sixth
query_wfmp(field, delivered, reply) ==
    LET msg == wfmp_query(field, rw.self.name)
        logged == [rw EXCEPT !.log = Append(@, msg)]
        got == CASE field = "yof" -> [logged EXCEPT !.yoffs = reply]
                 [] field = "ymu" -> [logged EXCEPT !.ymult = reply]
                 [] field = "yze" -> [logged EXCEPT !.yzero = reply]
                 [] field = "xze" -> [logged EXCEPT !.xzero = reply]
                 [] field = "xin" -> [logged EXCEPT !.xincr = reply]
                 [] field = "nrp" -> [logged EXCEPT !.ptcnt = reply]
        next == step_after(field, rw.bin_format)
    IN  /\ rw.pc = field
        /\ rw' = IF ~ delivered THEN Raise(logged, "IOError")
                 ELSE IF field = "yze"
                 THEN IF rescale_exc(got) # "none" THEN Raise(got, rescale_exc(got))
                      ELSE [got EXCEPT !.y = rescale(got.raw.data, got.yoffs.v,
                                                     got.ymult.v, got.yzero.v),
                                       !.pc = next]
                 ELSE IF field = "nrp"
                 THEN IF time_axis_exc(got) # "none"
                      THEN Raise(got, time_axis_exc(got))
                      ELSE [got EXCEPT !.x = time_axis(got.ptcnt.v, got.xincr.v,
                                                       got.xzero.v),
                                       !.pc = next]
                 ELSE [got EXCEPT !.pc = next]
        /\ UNCHANGED <<devVars, acc, meas>>

\* __exit__: the data source kept by __enter__ is selected again
exit_restore(delivered) ==
    /\ rw.pc = "exit"
    /\ IF rw.old_dsrc = None
       THEN /\ rw' = [rw EXCEPT !.pc = "done", !.restore = "not needed"]
            /\ UNCHANGED devVars
       ELSE LET msg == data_source_setter_cmd(rw.old_dsrc)
                logged == [rw EXCEPT !.log = Append(@, msg), !.pc = "done"]
            IN  /\ Transport(msg, delivered)
                /\ rw' = IF delivered THEN [logged EXCEPT !.restore = "delivered"]
                         ELSE [logged EXCEPT !.exc = "IOError",
                                             !.restore = "failed"]
    /\ UNCHANGED <<acc, meas>>

\* the caller has the result or the exception; the frame is gone
read_waveform_returns ==
    /\ rw.pc = "done"
    /\ rw' = RwBlank
    /\ UNCHANGED <<devVars, acc, meas>>

(***************************************************************************)
(* measurement, one message per step; Callers are the threads that may     *)
(* call into the one instrument.                                           *)
(***************************************************************************)
Callers == {1, 2}

MeasBlank ==
    [pc |-> "idle", idx |-> 0, key |-> "none", code |-> "none", log |-> <<>>,
     value |-> NoNum, exc |-> "none", prev |-> 0, disturbed |-> FALSE]

\* the codes of MeasurementTypes, in the order of the dict literal
MeasurementCodes ==
    <<"CRM", "FAL", "FREQ", "MAXI", "MEAN", "MINI", "NWI", "NON", "PK2",
      "PERI", "PWI", "RIS">>

\* the value the device computes for its immediate-measurement slot: it
\* tells the source and the type of the slot
DevMeasValue(sou, typ) ==
    100 * sou + (CHOOSE i \in 1..Len(MeasurementCodes) : MeasurementCodes[i] = typ)

\* the channel is numbered from 0 in the command
measurement_source_cmd_from_zero(idx) == <<"MEASU:IMM:SOU ">> \o Str(idx - 1)

\* "MEASU:IMM:SOU {}".format(self._idx)
measurement_source_cmd(idx) == <<"MEASU:IMM:SOU ">> \o Str(idx)

\* "MEASU:IMM:TYP {}".format(measurement)
measurement_type_cmd(code) == <<"MEASU:IMM:TYP ", code>>

\* the source command is left out when the last call sent the same one
measurement_entry_cached(idx, prev) == IF prev = idx THEN "typ" ELSE "sou"

\* the first statement of measurement, whatever was sent before
measurement_entry(idx, prev) == "sou"

\* a command of caller t reached the device: the calls of the other callers
\* that have sent their source and not yet read their value are disturbed
Disturb(t, frames) ==
    [u \in Callers |->
        IF u # t /\ frames[u].pc \in {"typ", "val"}
        THEN [frames[u] EXCEPT !.disturbed = TRUE] ELSE frames[u]]

\* the accessor key of the channel of index idx is called by caller t:
\* partial(self.measurement, MeasurementTypes[key], MeasurementUnits[key])
measurement(t, idx, key) ==
    /\ meas[t].pc = "idle"
    /\ key \in _set_measurements
    /\ meas' = [meas EXCEPT ![t] =
                  [MeasBlank EXCEPT !.pc = measurement_entry(idx, meas[t].prev),
                                    !.idx = idx, !.key = key,
                                    !.code = MeasurementTypes[key],
                                    !.prev = meas[t].prev]]
    /\ UNCHANGED <<devVars, acc, rw>>

\* sendcmd("MEASU:IMM:SOU {}".format(self._idx))
send_source(t, delivered) ==
    LET msg == measurement_source_cmd(meas[t].idx)
        logged == [meas EXCEPT ![t].log = Append(@, msg)]
    IN  /\ meas[t].pc = "sou"
        /\ Transport(msg, delivered)
        /\ meas' = IF delivered
                   THEN Disturb(t, [logged EXCEPT ![t].pc = "typ"])
                   ELSE [logged EXCEPT ![t].exc = "IOError", ![t].pc = "done"]
        /\ UNCHANGED <<acc, rw>>

\* sendcmd("MEASU:IMM:TYP {}".format(measurement))
send_type(t, delivered) ==
    LET msg == measurement_type_cmd(meas[t].code)
        logged == [meas EXCEPT ![t].log = Append(@, msg)]
    IN  /\ meas[t].pc = "typ"
        /\ Transport(msg, delivered)
        /\ meas' = IF delivered
                   THEN Disturb(t, [logged EXCEPT ![t].pc = "val"])
                   ELSE [logged EXCEPT ![t].exc = "IOError", ![t].pc = "done"]
        /\ UNCHANGED <<acc, rw>>

\* response = query("MEASU:IMM:VAL?"); return float(response) * units
query_value(t, delivered, reply) ==
    LET msg == <<"MEASU:IMM:VAL?">>
        logged == [meas EXCEPT ![t].log = Append(@, msg), ![t].pc = "done"]
    IN  /\ meas[t].pc = "val"
        /\ meas' = IF ~ delivered THEN [logged EXCEPT ![t].exc = "IOError"]
                   ELSE IF ~ reply.ok THEN [logged EXCEPT ![t].exc = "ValueError"]
                   ELSE [logged EXCEPT ![t].value = reply]
        /\ UNCHANGED <<devVars, acc, rw>>

\* the caller has the value or the exception; the frame is gone
measurement_returns(t) ==
    /\ meas[t].pc = "done"
    /\ meas' = [meas EXCEPT ![t] =
                  [MeasBlank EXCEPT !.prev =
                      IF \E i \in 1..Len(meas[t].log) :
                              Head(meas[t].log[i]) = "MEASU:IMM:SOU "
                      THEN meas[t].idx ELSE meas[t].prev]]
    /\ UNCHANGED <<devVars, acc, rw>>

(***************************************************************************)
(* Inputs.                                                                 *)
(***************************************************************************)
\* the data sources the facade hands out: channel[0..3], ref[0..3], math
FacadeSources ==
    {channel(i).obj : i \in 0..(NumChannels - 1)}
        \cup {ref(i).obj : i \in 0..(NumChannels - 1)} \cup {math}

\* the data sources waveforms are read from
WaveSources ==
    {s \in FacadeSources : s = math \/ \E i \in 0..(MaxSourceIdx - 1) :
                                          s \in {channel(i).obj, ref(i).obj}}

\* a source name the instrument does not have, passed as a str
StrSources == {StrValue(<<"C", "H">> \o Str(NumChannels + 1))}

ListIndices == (-1)..(NumChannels - 1 + MaxIndexOver)

\* what a caller may assign to coupling: the members, and values that are not
CouplingInputs ==
    {CouplingMember(m) : m \in DOMAIN Coupling}
        \cup {[type |-> "str", val |-> "AC"], [type |-> "str", val |-> "ground"]}

\* the sample records the device may hold
Curves ==
    {[i \in 1..n |-> s + 10 * (i - 1)] : n \in 0..MaxSamples, s \in {10, -20}}

\* what the device may answer to a query of the waveform preamble
WfmpReplies(field) ==
    {NoNum} \cup
    CASE field = "yof" -> {Num(0), Num(5)}
      [] field = "ymu" -> {Num(2), Num(3)}
      [] field = "yze" -> {Num(0), Num(1)}
      [] field = "xze" -> {Num(0), Num(3)}
      [] field = "xin" -> {Num(1), Num(2)}
      [] field = "nrp" -> {Num(n) : n \in 0..MaxPoints}

WfmpFields == {"yof", "ymu", "yze", "xze", "xin", "nrp"}

\* the accessors of a channel, in the order of the dict literal
MeasurementKeys ==
    <<"cyclic_rms", "fall_time", "frequency", "maximum", "mean", "minimum",
      "negative_width", "peak_peak", "period", "positive_width", "rise_time">>

\* what the device answers to MEASU:IMM:VAL?
ValueReplies == {Num(DevMeasValue(devImmSou, devImmTyp)), NoNum}

Init ==
    /\ devSource = <<"C", "H", "1">>
    /\ devWidth = 1
    /\ devCoupling = [n \in 1..NumChannels |-> "DC"]
    /\ devImmSou = 1
    /\ devImmTyp = "NON"
    /\ acc = AccBlank
    /\ rw = RwBlank
    /\ meas = [t \in Callers |-> MeasBlank]

(***************************************************************************)
(* The settings of the facade and of its channels, called one at a time.   *)
(***************************************************************************)
SetCalls ==
    \/ \E newval \in (-1)..MaxWidthArg, delivered \in BOOLEAN :
            data_width_set(newval, delivered)
    \/ \E delivered \in BOOLEAN, reply \in Replies(Str(devWidth)) :
            data_width_get(delivered, reply)
    \/ \E i \in 0..(NumChannels - 1), newval \in CouplingInputs,
          delivered \in BOOLEAN :
            coupling_set(channel(i).obj.idx, newval, delivered)
    \/ \E i \in 0..(NumChannels - 1), delivered \in BOOLEAN :
            \E reply \in {devCoupling[channel(i).obj.idx], "?"} :
                coupling_get(channel(i).obj.idx, delivered, reply)

NextSet == SetCalls /\ UNCHANGED <<rw, meas>>

SpecSet == Init /\ [][NextSet]_vars

(***************************************************************************)
(* The data sources of the facade, called one at a time.                   *)
(***************************************************************************)
ChanCalls ==
    \/ \E i \in ListIndices : channel_getitem(i)
    \/ \E i \in ListIndices : ref_getitem(i)
    \/ \E newval \in FacadeSources \cup StrSources, delivered \in BOOLEAN :
            data_source_set(newval, delivered)
    \/ \E delivered \in BOOLEAN : data_source_get(delivered, devSource)

NextChan == ChanCalls /\ UNCHANGED <<rw, meas>>

SpecChan == Init /\ [][NextChan]_vars

(***************************************************************************)
(* Waveform reads by one caller, between them changes of the selected data *)
(* source and of the data width.                                           *)
(***************************************************************************)
WaveSettings ==
    /\ rw.pc = "idle"
    /\ rw' = RwBlank
    /\ UNCHANGED meas
    /\ \/ \E newval \in WaveSources, delivered \in BOOLEAN :
              data_source_set(newval, delivered)
       \/ \E newval \in {1, 2} : data_width_set(newval, TRUE)

NextWave ==
    \/ WaveSettings
    \/ \E self \in WaveSources, bin_format \in BOOLEAN :
            read_waveform(self, bin_format)
    \/ \E delivered \in BOOLEAN : enter_query(delivered)
    \/ \E delivered \in BOOLEAN : enter_select(delivered)
    \/ \E delivered \in BOOLEAN : send_encoding(delivered)
    \/ \E delivered \in BOOLEAN, reply \in Replies(Str(devWidth)) :
            query_data_width(delivered, reply)
    \/ \E delivered \in BOOLEAN : send_curve(delivered)
    \/ \E delivered \in BOOLEAN, curve \in Curves : read_block(delivered, curve)
    \/ \E delivered \in BOOLEAN, curve \in Curves :
            query_curve_ascii(delivered, curve)
    \/ \E field \in WfmpFields, delivered \in BOOLEAN :
            \E reply \in WfmpReplies(field) : query_wfmp(field, delivered, reply)
    \/ \E delivered \in BOOLEAN : exit_restore(delivered)
    \/ read_waveform_returns

SpecWave == Init /\ [][NextWave]_vars

(***************************************************************************)
(* Measurements by one caller, one call after the other.                   *)
(***************************************************************************)
NextMeas ==
    \/ \E i \in 0..(NumChannels - 1), key \in _set_measurements :
            measurement(1, channel(i).obj.idx, key)
    \/ \E delivered \in BOOLEAN : send_source(1, delivered)
    \/ \E delivered \in BOOLEAN : send_type(1, delivered)
    \/ \E delivered \in BOOLEAN, reply \in ValueReplies :
            query_value(1, delivered, reply)
    \/ measurement_returns(1)

SpecMeas == Init /\ [][NextMeas]_vars

(***************************************************************************)
(* Measurements by two callers on the one instrument, their messages       *)
(* interleaved in any order.                                               *)
(***************************************************************************)
NextConc ==
    \/ \E t \in Callers, i \in 0..(ConcChannels - 1), k \in 1..ConcKeys :
            measurement(t, channel(i).obj.idx, MeasurementKeys[k])
    \/ \E t \in Callers, delivered \in BOOLEAN : send_source(t, delivered)
    \/ \E t \in Callers, delivered \in BOOLEAN : send_type(t, delivered)
    \/ \E t \in Callers, delivered \in BOOLEAN, reply \in ValueReplies :
            query_value(t, delivered, reply)
    \/ \E t \in Callers : measurement_returns(t)

SpecConc == Init /\ [][NextConc]_vars

(***************************************************************************)
(* Properties.                                                             *)
(***************************************************************************)
Returned == rw.pc = "done" /\ rw.exc = "none"

InBody ==
    rw.pc \in {"enc", "width", "curve_send", "binblock", "curve_query",
               "yof", "ymu", "yze", "xze", "xin", "nrp", "exit"}

Range(seq) == {seq[i] : i \in 1..Len(seq)}

\* C1 as stated: whenever read_waveform returns, the time and the voltage
\* sequence have the same length, and it is the point count the device
\* reported for WFMP:<source>:NR_P?, whatever number of samples the CURVE?
\* reply held.
C1_EqualLengths ==
    Returned => /\ Len(rw.x) = Len(rw.y)
                /\ Len(rw.x) = rw.ptcnt.v

\* C1 as amended: whenever read_waveform returns, the time sequence has the
\* length of the point count the device reported and the voltage sequence
\* has the length of the sample record of the CURVE? reply; the two lengths
\* are equal exactly when the device reported as many points as it sent
\* samples.
C1_LengthsFollowReplies ==
    Returned => /\ Len(rw.x) = rw.ptcnt.v
                /\ Len(rw.y) = Len(rw.curve)
                /\ (Len(rw.x) = Len(rw.y)) <=> (rw.ptcnt.v = Len(rw.curve))

\* a read that returned three voltages against two times
C1_Witness ==
    /\ Returned
    /\ Len(rw.curve) = 3 /\ rw.ptcnt.v = 2
    /\ Len(rw.y) = 3 /\ Len(rw.x) = 2

\* C2 as stated: while the body of read_waveform runs the device's selected
\* data source is the one being read, and when the call is over, returned
\* or failed at any step, the selected data source is the one selected
\* before the call.
C2_SourceScoped ==
    /\ InBody => devSource = rw.self.name
    /\ rw.pc = "done" => devSource = rw.before

\* C2 as amended: while the body of read_waveform runs the device's selected
\* data source is the one being read; when the call is over, returned or
\* failed, the selected data source is the one selected before the call,
\* unless the transport failed on the DAT:SOU command that restores it, and
\* then the call fails with the transport error and the data source being
\* read stays selected.
C2_SourceScopedUnlessRestoreFails ==
    /\ InBody => devSource = rw.self.name
    /\ (rw.pc = "done" /\ rw.restore # "failed") => devSource = rw.before
    /\ (rw.pc = "done" /\ rw.restore = "failed") =>
            /\ devSource = rw.self.name
            /\ rw.exc = "IOError"

\* a read of another source than the selected one that failed on a reply
\* float() rejects, and the source selected before is selected again
C2_Witness ==
    /\ rw.pc = "done"
    /\ rw.exc = "ValueError"
    /\ rw.restore = "delivered"
    /\ rw.before # rw.self.name
    /\ devSource = rw.before

\* C5: when read_waveform returns, the voltage at each position is
\* (r - o) * m + z for the raw sample r of the CURVE? reply at that position
\* and the offset o, multiplier m and zero z the device reported for
\* WFMP:<source>:YOF?, YMU? and YZE? of the data source being read.
C5_RescaleLaw ==
    Returned =>
        /\ Len(rw.y) = Len(rw.curve)
        /\ \A i \in 1..Len(rw.curve) :
              rw.y[i] = (rw.curve[i] - rw.yoffs.v) * rw.ymult.v + rw.yzero.v
        /\ {<<"WFMP:">> \o rw.self.name \o <<f>> :
                f \in {":YOF?", ":YMU?", ":YZE?"}} \subseteq Range(rw.log)

\* raw [10, 20, 30] with o = 5, m = 2, z = 0 gave [10, 30, 50]
C5_Witness ==
    /\ Returned
    /\ rw.curve = <<10, 20, 30>>
    /\ rw.yoffs.v = 5 /\ rw.ymult.v = 2 /\ rw.yzero.v = 0
    /\ rw.y = <<10, 30, 50>>

\* C6: when read_waveform returns, the time sequence has the length n the
\* device reported for WFMP:<source>:NR_P? and time[i] = i * increment +
\* zero for every i in [0, n), increment and zero being the replies to
\* WFMP:XIN? and WFMP:XZE?.
C6_TimeAxis ==
    Returned =>
        /\ Len(rw.x) = rw.ptcnt.v
        /\ \A i \in 0..(rw.ptcnt.v - 1) :
              rw.x[i + 1] = i * rw.xincr.v + rw.xzero.v
        /\ {<<"WFMP:XZE?">>, <<"WFMP:XIN?">>,
            <<"WFMP:">> \o rw.self.name \o <<":NR_P?">>} \subseteq Range(rw.log)

\* three points from zero 3 with increment 2
C6_Witness ==
    /\ Returned
    /\ rw.ptcnt.v = 3 /\ rw.xzero.v = 3 /\ rw.xincr.v = 2
    /\ rw.x = <<3, 5, 7>>

\* C10: on the binary path, after the messages that select the data source,
\* the exchanges of read_waveform are, in this order and with nothing in
\* between: DAT:ENC RIB, DATA:WIDTH?, CURVE?, the block read with the width
\* DATA:WIDTH? gave (1 or 2), the flush of the input, then the queries
\* YOF?, YMU?, YZE?, XZE?, XIN?, NR_P?; only the command that selects the
\* former data source again may follow.
C10_BinaryOrder ==
    LET selects(e) == Head(e) \in {"DAT:SOU?", "DAT:SOU "}
        k == Cardinality({i \in 1..Len(rw.log) :
                            \A j \in 1..i : selects(rw.log[j])})
        want == <<
            <<"DAT:ENC RIB">>, <<"DATA:WIDTH?">>, <<"CURVE?">>,
            <<"binblockread ">> \o Str(rw.data_width), <<"flush_input">>,
            <<"WFMP:">> \o rw.self.name \o <<":YOF?">>,
            <<"WFMP:">> \o rw.self.name \o <<":YMU?">>,
            <<"WFMP:">> \o rw.self.name \o <<":YZE?">>,
            <<"WFMP:XZE?">>, <<"WFMP:XIN?">>,
            <<"WFMP:">> \o rw.self.name \o <<":NR_P?">> >>
    IN  rw.bin_format =>
          /\ \A i \in (k + 1)..Len(rw.log) :
                \/ i - k <= Len(want) /\ rw.log[i] = want[i - k]
                \/ i = Len(rw.log) /\ rw.pc = "done" /\ selects(rw.log[i])
          /\ <<"flush_input">> \in Range(rw.log) => rw.data_width \in {1, 2}
          /\ Returned => Len(rw.log) >= k + Len(want)

\* a binary read of another source than the selected one that returned:
\* two selecting messages, the eleven exchanges, the restoring command
C10_Witness ==
    /\ Returned
    /\ rw.bin_format
    /\ rw.data_width = 2
    /\ Len(rw.log) = 14

Finished(f) == f.pc = "done" /\ f.exc # "IOError"

\* C3: every call of a channel's measurement accessor sends MEASU:IMM:SOU
\* with the channel's index, then MEASU:IMM:TYP with the code of the
\* accessor, then MEASU:IMM:VAL?, and nothing else: what a call has sent
\* is at every moment the beginning of these three messages, and all three
\* once the call is over without a transport error, also when the call
\* before it sent the same source.
C3_ThreeMessages ==
    \A t \in Callers :
        LET f == meas[t]
            want == << <<"MEASU:IMM:SOU ">> \o Str(f.idx),
                       <<"MEASU:IMM:TYP ", MeasurementTypes[f.key]>>,
                       <<"MEASU:IMM:VAL?">> >>
        IN  f.pc # "idle" =>
              /\ Cardinality(_set_measurements) = 11
              /\ f.key \in DOMAIN MeasurementUnits
              /\ f.idx \in 1..NumChannels
              /\ Len(f.log) <= 3
              /\ \A i \in 1..Len(f.log) : f.log[i] = want[i]
              /\ f.pc = "typ" => Len(f.log) = 1
              /\ f.pc = "val" => Len(f.log) = 2
              /\ Finished(f) => f.log = want

\* a call that is over and sent all three messages, on the channel whose
\* source command the call before it had sent already
C3_Witness ==
    /\ Finished(meas[1])
    /\ meas[1].exc = "none"
    /\ meas[1].prev = meas[1].idx
    /\ devImmTyp = meas[1].code
    /\ Len(meas[1].log) = 3

\* C9: a measurement call that read its value with no command of another
\* caller reaching the device since its own MEASU:IMM:SOU has the value of
\* its own channel and type; the witness is a call whose messages were
\* interleaved with another call's and whose value is the one of the other
\* call's source or type.
C9_ValueOfSlot ==
    \A t \in Callers :
        LET f == meas[t]
        IN  (f.pc = "done" /\ f.exc = "none" /\ ~ f.disturbed) =>
                f.value.v = DevMeasValue(f.idx, MeasurementTypes[f.key])

\* caller 1 has the value of caller 2's channel and type, not of its own
C9_Witness ==
    /\ meas[1].pc = "done" /\ meas[1].exc = "none"
    /\ meas[2].pc \in {"val", "done"}
    /\ meas[1].value.v # DevMeasValue(meas[1].idx, MeasurementTypes[meas[1].key])
    /\ meas[1].value.v = DevMeasValue(meas[2].idx, MeasurementTypes[meas[2].key])

\* C4: a data_width set to an integer other than 1 and 2, and a coupling
\* set to a value that is no member of Coupling, fail with an error, send
\* nothing on the link and leave the device as it was.
C4_ValidationBeforeSend ==
    /\ (acc.op = "data_width=" /\ acc.argInt \notin {1, 2}) =>
            /\ acc.exc = "ValueError"
            /\ acc.sent = <<>>
            /\ ~ acc.devChanged
    /\ (acc.op = "coupling=" /\ ~ (/\ acc.argVal.type = "Coupling"
                                   /\ acc.argVal.val \in {"ac", "dc", "ground"})) =>
            /\ acc.exc = "TypeError"
            /\ acc.sent = <<>>
            /\ ~ acc.devChanged

\* the str "AC" assigned to the coupling of a channel
C4_Witness ==
    /\ acc.op = "coupling="
    /\ acc.argVal = [type |-> "str", val |-> "AC"]
    /\ acc.exc = "TypeError"
    /\ acc.sent = <<>>

\* C7 as stated: every Channel the facade produces, through the channel
\* list or through the data_source getter, has an index in [1, 4] and the
\* name CH followed by that index.
C7_IndexInRange ==
    (acc.op \in {"channel", "data_source"} /\ acc.retObj.cls = "Channel") =>
        /\ acc.retObj.idx \in 1..4
        /\ acc.retObj.name = <<"C", "H">> \o Str(acc.retObj.idx)

\* C7 as amended: every Channel the facade produces has the name CH
\* followed by its index; through the channel list the index is the list
\* index plus one, in [1, 4]; through the data_source getter the index is
\* the number the reply to DAT:SOU? carries after CH, in [1, 4] only when
\* that number is.
C7_IndexFollowsReply ==
    (acc.op \in {"channel", "data_source"} /\ acc.retObj.cls = "Channel") =>
        /\ acc.retObj.name = <<"C", "H">> \o Str(acc.retObj.idx)
        /\ acc.op = "channel" =>
                /\ acc.retObj.idx = acc.idx + 1
                /\ acc.retObj.idx \in 1..4
        /\ acc.op = "data_source" =>
                /\ startswith_CH(acc.reply)
                /\ acc.retObj.idx = DigitsValue(SubSeq(acc.reply, 3, Len(acc.reply)))

\* the getter, the device answering CH5
C7_Witness ==
    /\ acc.op = "data_source"
    /\ acc.reply = <<"C", "H", "5">>
    /\ acc.retObj.cls = "Channel"
    /\ acc.retObj.idx = 5

\* C8: a coupling set to a member of Coupling on channel n sends
\* CH<n>:COUPL with AC, DC or GND, the device then holds that value for
\* channel n and what it held for the other channels; the coupling read
\* right after it on the same channel is the member that was set.
C8_CouplingRoundTrip ==
    LET wire == [ac |-> "AC", dc |-> "DC", ground |-> "GND"]
    IN  /\ (acc.op = "coupling=" /\ acc.exc = "none") =>
                /\ acc.idx \in 1..4
                /\ acc.sent = << <<"CH">> \o Str(acc.idx)
                                    \o <<":COUPL ", wire[acc.argVal.val]>> >>
                /\ devCoupling[acc.idx] = wire[acc.argVal.val]
                /\ acc.changed \subseteq {acc.idx}
        /\ (acc.op = "coupling" /\ acc.exc = "none" /\ acc.prevSet # "none") =>
                acc.retCoupling = acc.prevSet

\* GROUND set on channel 3 and read back
C8_Witness ==
    /\ acc.op = "coupling" /\ acc.exc = "none"
    /\ acc.idx = 3
    /\ acc.prevSet = "ground"
    /\ acc.retCoupling = "ground"

====
